---- MODULE Spec2Model ----
(***************************************************************************)
(* A model of rscoin's transaction core (src/rscoin/__init__.py): the      *)
(* byte-level codec of Tx (serialize / parse / id), the UTXO entry         *)
(* derivation, and the two validators check_transaction and                *)
(* check_transaction_utxo, plus a ledger that applies accepted             *)
(* transactions to a UTXO store.                                           *)
(*                                                                         *)
(* External collaborators are modelled by their contracts: struct.pack /   *)
(* struct.unpack as fixed-width little-endian fields that raise            *)
(* struct.error on a value or a length that does not fit; sha256 as a      *)
(* 32-byte digest computed from the bytes; ECDSA as an ideal signature,    *)
(* valid exactly for the key and the message it was made with.             *)
(***************************************************************************)
EXTENDS Integers, Sequences, FiniteSets, TLC

VARIABLES
    inTx,       \* Tx.inTx  of the transaction at hand: sequence of InputTx
    outTx,      \* Tx.outTx of the transaction at hand: sequence of OutputTx
    data,       \* the byte buffer handed to Tx.parse
    past_tx,    \* check_transaction's evidence: serialized prior transactions
    past_utxo,  \* check_transaction_utxo's evidence: (txid, pos, keyid, val)
    keys,       \* the public keys supplied with the transaction
    sigs,       \* the signatures supplied with the transaction
    store,      \* the caller's UTXO store: packed key -> packed value
    pc,         \* the phase of the run
    ret         \* what the last operation returned (or raised)

vars == <<inTx, outTx, data, past_tx, past_utxo, keys, sigs, store, pc, ret>>

----------------------------------------------------------------------------
(* struct.pack / struct.unpack *)

\* The width of the "32s" field of the formats "32sI" and "32sQ".
IdLen == 32
\* The width of the "H" fields of the header "HH".
CountLen == 2
\* The width of the "I" field (position).
PosLen == 4
\* The width of the "Q" field (amount).
ValueLen == 8

HeaderLen == CountLen + CountLen
InRecLen == IdLen + PosLen
OutRecLen == IdLen + ValueLen

\* What pack and unpack raise.
StructError == "struct.error"
\* What a list index out of range raises.
IndexError == "IndexError"
NoError == "none"

\* The outcome of a call: the value it returned, or the exception it raised.
Ok(v) == [err |-> NoError, val |-> v]
Raise(e) == [err |-> e, val |-> << >>]
IsOk(r) == r.err = NoError

\* A validator returned True / returned False.
Accepted(r) == IsOk(r) /\ r.val
Rejected(r) == IsOk(r) /\ ~r.val

\* An unsigned integer field of w bytes, least significant byte first.
RECURSIVE PackUInt(_, _)
PackUInt(n, w) ==
    IF w = 0 THEN << >> ELSE <<n % 256>> \o PackUInt(n \div 256, w - 1)

RECURSIVE UnpackUInt(_)
UnpackUInt(bs) ==
    IF Len(bs) = 0 THEN 0 ELSE bs[1] + 256 * UnpackUInt(Tail(bs))

\* What is left of n above its w low bytes.
RECURSIVE HighPart(_, _)
HighPart(n, w) ==
    IF w = 0 THEN n ELSE HighPart(n \div 256, w - 1)

\* pack takes an unsigned field only from 0 .. 256^w - 1.
FitsUInt(n, w) ==
    0 <= n /\ HighPart(n, w) = 0

\* The "32s" field: the bytes, cut or NUL-padded to 32.
Pack32s(s) ==
    [i \in 1..IdLen |-> IF i <= Len(s) THEN s[i] ELSE 0]

\* pack("HH", a, b)
PackHH(a, b) ==
    IF FitsUInt(a, CountLen) /\ FitsUInt(b, CountLen)
    THEN Ok(PackUInt(a, CountLen) \o PackUInt(b, CountLen))
    ELSE Raise(StructError)

\* pack("32sI", id, pos)
Pack32sI(id, pos) ==
    IF FitsUInt(pos, PosLen)
    THEN Ok(Pack32s(id) \o PackUInt(pos, PosLen))
    ELSE Raise(StructError)

\* pack("32sQ", key_id, value)
Pack32sQ(key_id, value) ==
    IF FitsUInt(value, ValueLen)
    THEN Ok(Pack32s(key_id) \o PackUInt(value, ValueLen))
    ELSE Raise(StructError)

\* data[:n]
Slice(bs, n) ==
    SubSeq(bs, 1, IF n < Len(bs) THEN n ELSE Len(bs))

\* data[n:]
Drop(bs, n) ==
    SubSeq(bs, n + 1, Len(bs))

\* unpack("HH", bs)
UnpackHH(bs) ==
    IF Len(bs) = HeaderLen
    THEN Ok(<< UnpackUInt(SubSeq(bs, 1, CountLen)),
               UnpackUInt(SubSeq(bs, CountLen + 1, HeaderLen)) >>)
    ELSE Raise(StructError)

\* unpack("32sI", bs)
Unpack32sI(bs) ==
    IF Len(bs) = InRecLen
    THEN Ok(<< SubSeq(bs, 1, IdLen),
               UnpackUInt(SubSeq(bs, IdLen + 1, InRecLen)) >>)
    ELSE Raise(StructError)

\* unpack("32sQ", bs)
Unpack32sQ(bs) ==
    IF Len(bs) = OutRecLen
    THEN Ok(<< SubSeq(bs, 1, IdLen),
               UnpackUInt(SubSeq(bs, IdLen + 1, OutRecLen)) >>)
    ELSE Raise(StructError)

----------------------------------------------------------------------------
(* hashlib.sha256: a 32-byte digest that is a function of the bytes alone. *)

\* Byte j of bs, counted from 1 so that a NUL byte counts; 0 past the end.
DigestByte(bs, j) ==
    IF j <= Len(bs) THEN bs[j] + 1 ELSE 0

\* Three position-weighted sums of the eight bytes from lo on.
DigestBlock(bs, lo) ==
    LET d0 == DigestByte(bs, lo)
        d1 == DigestByte(bs, lo + 1)
        d2 == DigestByte(bs, lo + 2)
        d3 == DigestByte(bs, lo + 3)
        d4 == DigestByte(bs, lo + 4)
        d5 == DigestByte(bs, lo + 5)
        d6 == DigestByte(bs, lo + 6)
        d7 == DigestByte(bs, lo + 7)
    IN  << d0 + d1 + d2 + d3 + d4 + d5 + d6 + d7,
           (lo * (d0 + d1 + d2 + d3 + d4 + d5 + d6 + d7)
              + d1 + 2 * d2 + 3 * d3 + 4 * d4 + 5 * d5 + 6 * d6 + 7 * d7) % 65536,
           ((lo * lo) % 4093) * (d0 + 3 * d1 + 5 * d2 + 7 * d3 + 11 * d4
              + 13 * d5 + 17 * d6 + 19 * d7) % 65536 >>

\* The sums over the blocks that start at lo, lo + 8, ..., up to hi.
RECURSIVE DigestSums(_, _, _)
DigestSums(bs, lo, hi) ==
    IF lo > hi THEN <<0, 0, 0>>
    ELSE IF lo + 8 > hi THEN DigestBlock(bs, lo)
    ELSE LET mid == lo + 8 * (((hi - lo) \div 8 + 1) \div 2)
             l   == DigestSums(bs, lo, mid - 1)
             r   == DigestSums(bs, mid, hi)
         IN  <<(l[1] + r[1]) % 65536, (l[2] + r[2]) % 65536,
               (l[3] + r[3]) % 65536>>

\* sha256(bs).digest()
Sha256(bs) ==
    LET s == DigestSums(bs, 1, Len(bs))
    IN  [i \in 1..IdLen |->
            IF i = 1 THEN s[1] % 256
            ELSE IF i = 2 THEN s[1] \div 256
            ELSE IF i = 3 THEN s[2] % 256
            ELSE IF i = 4 THEN s[2] \div 256
            ELSE IF i = 5 THEN s[3] % 256
            ELSE IF i = 6 THEN s[3] \div 256
            ELSE (Len(bs) + i * s[1] + s[2] + s[3]) % 256]

----------------------------------------------------------------------------
(* Named structures *)

InputTx(tx_id, pos) == [tx_id |-> tx_id, pos |-> pos]
OutputTx(key_id, value) == [key_id |-> key_id, value |-> value]
Tx(in, out) == [inTx |-> in, outTx |-> out]

----------------------------------------------------------------------------
(* class Tx: the codec *)

\* SerializeIn taking the inputs last to first.
RECURSIVE SerializeInReversed(_, _)
SerializeInReversed(ins, ser) ==
    IF Len(ins) = 0 THEN Ok(ser)
    ELSE LET rec == Pack32sI(ins[Len(ins)].tx_id, ins[Len(ins)].pos)
         IN  IF IsOk(rec)
             THEN SerializeInReversed(SubSeq(ins, 1, Len(ins) - 1), ser \o rec.val)
             ELSE rec

\* The first loop of Tx.serialize: ser += pack("32sI", ...) per input.
RECURSIVE SerializeIn(_, _)
SerializeIn(ins, ser) ==
    IF Len(ins) = 0 THEN Ok(ser)
    ELSE LET rec == Pack32sI(ins[1].tx_id, ins[1].pos)
         IN  IF IsOk(rec) THEN SerializeIn(Tail(ins), ser \o rec.val)
             ELSE rec

\* The second loop of Tx.serialize: ser += pack("32sQ", ...) per output.
RECURSIVE SerializeOut(_, _)
SerializeOut(outs, ser) ==
    IF Len(outs) = 0 THEN Ok(ser)
    ELSE LET rec == Pack32sQ(outs[1].key_id, outs[1].value)
         IN  IF IsOk(rec) THEN SerializeOut(Tail(outs), ser \o rec.val)
             ELSE rec

\* Tx.serialize
Serialize(tx) ==
    LET head == PackHH(Len(tx.inTx), Len(tx.outTx))
    IN  IF ~IsOk(head) THEN head
        ELSE LET ins == SerializeIn(tx.inTx, head.val)
             IN  IF ~IsOk(ins) THEN ins
                 ELSE SerializeOut(tx.outTx, ins.val)

\* The first loop of Tx.parse: n input records off the front of bs.
RECURSIVE ParseIn(_, _, _)
ParseIn(bs, n, acc) ==
    IF n = 0 THEN Ok(<<acc, bs>>)
    ELSE LET rec == Unpack32sI(Slice(bs, InRecLen))
         IN  IF ~IsOk(rec) THEN rec
             ELSE ParseIn(Drop(bs, InRecLen), n - 1,
                          Append(acc, InputTx(rec.val[1], rec.val[2])))

\* ParseOut that stops at the end of the buffer instead of failing.
RECURSIVE ParseOutWhileData(_, _, _)
ParseOutWhileData(bs, n, acc) ==
    IF n = 0 \/ Len(bs) < OutRecLen THEN Ok(<<acc, bs>>)
    ELSE LET rec == Unpack32sQ(Slice(bs, OutRecLen))
         IN  ParseOutWhileData(Drop(bs, OutRecLen), n - 1,
                               Append(acc, OutputTx(rec.val[1], rec.val[2])))

\* The second loop of Tx.parse: n output records off the front of bs.
RECURSIVE ParseOut(_, _, _)
ParseOut(bs, n, acc) ==
    IF n = 0 THEN Ok(<<acc, bs>>)
    ELSE LET rec == Unpack32sQ(Slice(bs, OutRecLen))
         IN  IF ~IsOk(rec) THEN rec
             ELSE ParseOut(Drop(bs, OutRecLen), n - 1,
                           Append(acc, OutputTx(rec.val[1], rec.val[2])))

\* Tx.parse
Parse(bs) ==
    LET head == UnpackHH(Slice(bs, HeaderLen))
    IN  IF ~IsOk(head) THEN head
        ELSE LET ins == ParseIn(Drop(bs, HeaderLen), head.val[1], << >>)
             IN  IF ~IsOk(ins) THEN ins
                 ELSE LET outs == ParseOut(ins.val[2], head.val[2], << >>)
                      IN  IF ~IsOk(outs) THEN outs
                          ELSE Ok(Tx(ins.val[1], outs.val[1]))

\* Tx.id
TxId(tx) ==
    LET ser == Serialize(tx)
    IN  IF IsOk(ser) THEN Ok(Sha256(ser.val)) ELSE ser

\* Tx.__eq__ (the other operand being a Tx)
TxEq(a, b) ==
    LET ida == TxId(a)
        idb == TxId(b)
    IN  IF ~IsOk(ida) THEN ida
        ELSE IF ~IsOk(idb) THEN idb
        ELSE Ok(ida.val = idb.val)

\* Tx.get_utxo_in_keys
RECURSIVE get_utxo_in_keys(_, _)
get_utxo_in_keys(ins, in_utxo) ==
    IF Len(ins) = 0 THEN Ok(in_utxo)
    ELSE LET inkey == Pack32sI(ins[1].tx_id, ins[1].pos)
         IN  IF ~IsOk(inkey) THEN inkey
             ELSE get_utxo_in_keys(Tail(ins), Append(in_utxo, inkey.val))

\* get_utxo_out_entries numbering the outputs from 1.
RECURSIVE OutEntriesFromOne(_, _, _)
OutEntriesFromOne(tx, pos, out_utxo) ==
    IF pos >= Len(tx.outTx) THEN Ok(out_utxo)
    ELSE LET id       == TxId(tx)
             outtx    == tx.outTx[pos + 1]
         IN  IF ~IsOk(id) THEN id
             ELSE LET outkey   == Pack32sI(id.val, pos + 1)
                      outvalue == Pack32sQ(outtx.key_id, outtx.value)
                  IN  IF ~IsOk(outkey) THEN outkey
                      ELSE IF ~IsOk(outvalue) THEN outvalue
                      ELSE OutEntriesFromOne(tx, pos + 1,
                               Append(out_utxo, <<outkey.val, outvalue.val>>))

\* The loop of Tx.get_utxo_out_entries, from position pos (0-based) on.
RECURSIVE OutEntriesFrom(_, _, _)
OutEntriesFrom(tx, pos, out_utxo) ==
    IF pos >= Len(tx.outTx) THEN Ok(out_utxo)
    ELSE LET id       == TxId(tx)
             outtx    == tx.outTx[pos + 1]
         IN  IF ~IsOk(id) THEN id
             ELSE LET outkey   == Pack32sI(id.val, pos)
                      outvalue == Pack32sQ(outtx.key_id, outtx.value)
                  IN  IF ~IsOk(outkey) THEN outkey
                      ELSE IF ~IsOk(outvalue) THEN outvalue
                      ELSE OutEntriesFrom(tx, pos + 1,
                               Append(out_utxo, <<outkey.val, outvalue.val>>))

\* Tx.get_utxo_out_entries
get_utxo_out_entries(tx) ==
    OutEntriesFrom(tx, 0, << >>)

----------------------------------------------------------------------------
(* class Key, over ideal ECDSA *)

\* Two exported public points, and the key that issues coins.
K1 == <<2, 17>>
K2 == <<3, 34>>
KeyBytes == {K1, K2}

\* Key.id: the fingerprint of the public key
KeyId(pub) ==
    Sha256(pub)

\* Key.sign, by the holder of the secret of pub
Sign(pub, message) ==
    [signer |-> pub, message |-> message]

\* Key.verify
Verify(pub, message, sig) ==
    sig.signer = pub /\ sig.message = message

----------------------------------------------------------------------------
(* class Tx: the validators *)

\* masterkey=None: no byte string equals it.
None == << >>

\* oTx.outTx[pos]: a Python list index, counting from the end when negative.
ListIndex(list, pos) ==
    IF 0 <= pos /\ pos < Len(list) THEN Ok(list[pos + 1])
    ELSE IF pos < 0 /\ 0 - pos <= Len(list) THEN Ok(list[Len(list) + pos + 1])
    ELSE Raise(IndexError)

\* len of zip(a, b, c, d)
ZipLen(a, b, c, d) ==
    CHOOSE n \in {Len(a), Len(b), Len(c), Len(d)} :
        \A m \in {Len(a), Len(b), Len(c), Len(d)} : n <= m

RECURSIVE SumValues(_)
SumValues(outs) ==
    IF Len(outs) = 0 THEN 0 ELSE outs[1].value + SumValues(Tail(outs))

\* IssuingBranch that takes any key for the master key.
IssuingBranchAnyKey(tx, past, ks, ss, masterkey) ==
    LET good1 == Len(past) = Len(tx.inTx) /\ Len(tx.inTx) = 0
        good2 == good1 /\ (Len(ks) = Len(ss) /\ Len(ss) = 1)
    IN  IF Len(ks) = 0 THEN Raise(IndexError)
        ELSE LET id == TxId(tx)
             IN  IF ~IsOk(id) THEN id
                 ELSE IF Len(ss) = 0 THEN Raise(IndexError)
                 ELSE Ok(good2 /\ Verify(ks[1], id.val, ss[1]))

\* The issuing branch, the same in both validators: no parents, one key that
\* is the master key, one signature of the id by it.
IssuingBranch(tx, past, ks, ss, masterkey) ==
    LET good1 == Len(past) = Len(tx.inTx) /\ Len(tx.inTx) = 0
        good2 == good1 /\ (Len(ks) = Len(ss) /\ Len(ss) = 1)
    IN  IF Len(ks) = 0 THEN Raise(IndexError)
        ELSE LET good3 == good2 /\ ks[1] = masterkey
                 id    == TxId(tx)
             IN  IF ~IsOk(id) THEN id
                 ELSE IF Len(ss) = 0 THEN Raise(IndexError)
                 ELSE Ok(good3 /\ Verify(ks[1], id.val, ss[1]))

\* UtxoLoop that does not compare the key's fingerprint with the owner's.
RECURSIVE UtxoLoopAnyOwner(_, _, _, _, _, _, _)
UtxoLoopAnyOwner(tx, utxos, ks, ss, i, all_good, val) ==
    IF i > ZipLen(utxos, ks, ss, tx.inTx) THEN Ok(<<all_good, val>>)
    ELSE LET utxo  == utxos[i]
             txin  == tx.inTx[i]
             good1 == all_good /\ utxo[1] = txin.tx_id /\ utxo[2] = txin.pos
         IN  IF ~good1 THEN Ok(<<FALSE, val>>)
             ELSE LET id == TxId(tx)
                  IN  IF ~IsOk(id) THEN id
                      ELSE UtxoLoopAnyOwner(tx, utxos, ks, ss, i + 1,
                                    good1 /\ Verify(ks[i], id.val, ss[i]),
                                    val + utxo[4])

\* The loop of check_transaction_utxo from position i on: per input the
\* evidence is for it, the key is the owner's, the signature is the key's.
RECURSIVE UtxoLoop(_, _, _, _, _, _, _)
UtxoLoop(tx, utxos, ks, ss, i, all_good, val) ==
    IF i > ZipLen(utxos, ks, ss, tx.inTx) THEN Ok(<<all_good, val>>)
    ELSE LET utxo  == utxos[i]
             txin  == tx.inTx[i]
             good1 == all_good /\ utxo[1] = txin.tx_id /\ utxo[2] = txin.pos
         IN  IF ~good1 THEN Ok(<<FALSE, val>>)
             ELSE LET good2 == good1 /\ utxo[3] = KeyId(ks[i])
                      id    == TxId(tx)
                  IN  IF ~IsOk(id) THEN id
                      ELSE UtxoLoop(tx, utxos, ks, ss, i + 1,
                                    good2 /\ Verify(ks[i], id.val, ss[i]),
                                    val + utxo[4])

\* check_transaction_utxo that lets the outputs pay less than the inputs.
check_transaction_utxo_fee(tx, utxos, ks, ss, masterkey) ==
    IF Len(utxos) = 0 THEN IssuingBranch(tx, utxos, ks, ss, masterkey)
    ELSE IF ~(/\ Len(utxos) > 0
              /\ Len(utxos) = Len(ks) /\ Len(ks) = Len(ss)
              /\ Len(ss) = Len(tx.inTx))
    THEN Ok(FALSE)
    ELSE LET loop == UtxoLoop(tx, utxos, ks, ss, 1, TRUE, 0)
         IN  IF ~IsOk(loop) THEN loop
             ELSE Ok(loop.val[1] /\ loop.val[2] >= SumValues(tx.outTx))

\* Tx.check_transaction_utxo
check_transaction_utxo(tx, utxos, ks, ss, masterkey) ==
    IF Len(utxos) = 0 THEN IssuingBranch(tx, utxos, ks, ss, masterkey)
    ELSE IF ~(/\ Len(utxos) > 0
              /\ Len(utxos) = Len(ks) /\ Len(ks) = Len(ss)
              /\ Len(ss) = Len(tx.inTx))
    THEN Ok(FALSE)
    ELSE LET loop == UtxoLoop(tx, utxos, ks, ss, 1, TRUE, 0)
         IN  IF ~IsOk(loop) THEN loop
             ELSE Ok(loop.val[1] /\ loop.val[2] = SumValues(tx.outTx))

\* The loop of check_transaction from position i on: parse each prior
\* transaction and take from it the output the input names.  all_good is
\* computed and not read again.
RECURSIVE PastTxLoop(_, _, _, _, _)
PastTxLoop(tx, past, i, all_good, out_utxo) ==
    IF i > Len(past) \/ i > Len(tx.inTx) THEN Ok(out_utxo)
    ELSE LET txin == tx.inTx[i]
             oTx  == Parse(past[i])
         IN  IF ~IsOk(oTx) THEN oTx
             ELSE LET oid == TxId(oTx.val)
                  IN  IF ~IsOk(oid) THEN oid
                      ELSE LET good  == /\ all_good
                                        /\ txin.tx_id = oid.val
                                        /\ 0 <= txin.pos
                                        /\ txin.pos < Len(oTx.val.outTx)
                               outtx == ListIndex(oTx.val.outTx, txin.pos)
                           IN  IF ~IsOk(outtx) THEN outtx
                               ELSE PastTxLoop(tx, past, i + 1, good,
                                        Append(out_utxo,
                                            <<txin.tx_id, txin.pos,
                                              outtx.val.key_id, outtx.val.value>>))

\* check_transaction that does not hand masterkey to the issuing branch.
check_transaction_no_master(tx, past, ks, ss, masterkey) ==
    IF Len(past) = 0 THEN IssuingBranch(tx, past, ks, ss, None)
    ELSE IF ~(Len(past) = Len(ks) /\ Len(ks) = Len(ss) /\ Len(ss) = Len(tx.inTx))
    THEN Ok(FALSE)
    ELSE LET out_utxo == PastTxLoop(tx, past, 1, TRUE, << >>)
         IN  IF ~IsOk(out_utxo) THEN out_utxo
             ELSE check_transaction_utxo(tx, out_utxo.val, ks, ss, None)

\* Tx.check_transaction
check_transaction(tx, past, ks, ss, masterkey) ==
    IF Len(past) = 0 THEN IssuingBranch(tx, past, ks, ss, masterkey)
    ELSE IF ~(Len(past) = Len(ks) /\ Len(ks) = Len(ss) /\ Len(ss) = Len(tx.inTx))
    THEN Ok(FALSE)
    ELSE LET out_utxo == PastTxLoop(tx, past, 1, TRUE, << >>)
         IN  IF ~IsOk(out_utxo) THEN out_utxo
             ELSE check_transaction_utxo(tx, out_utxo.val, ks, ss, None)

----------------------------------------------------------------------------
(* The values the runs draw from *)

MaxIn == 2
MaxOut == 2

\* Two coin-issuing transactions, already on the ledger.  They pay the same
\* first output; P1 pays a second one.
P1 == Tx(<< >>, <<OutputTx(KeyId(K1), 100), OutputTx(KeyId(K2), 100)>>)
P2 == Tx(<< >>, <<OutputTx(KeyId(K1), 100)>>)
IdP1 == TxId(P1).val
IdP2 == TxId(P2).val

\* The codec runs: fields at both ends of the range the model's integers
\* hold, and one out of the range of the field.
CodecInputs ==
    {InputTx(IdP1, 0), InputTx(IdP2, 2147483647), InputTx(IdP1, -1)}
CodecOutputs ==
    {OutputTx(KeyId(K1), 100), OutputTx(KeyId(K2), 2147483647),
     OutputTx(KeyId(K1), -1)}

\* The key of the authority that issues coins.
MasterKey == K1

\* The validator runs: a transaction that spends outputs of P1, paying 100
\* per output; as evidence, prior transactions and the store entries of their
\* outputs.
SpendInputs ==
    {InputTx(IdP1, 0), InputTx(IdP1, 1)}
SpendOutputs ==
    {OutputTx(KeyId(K2), 100)}
Evidence ==
    {<<P1, 0>>, <<P1, 1>>, <<P2, 0>>}

\* The store entry of output pos of prior, as check_transaction_utxo takes it.
UtxoOf(prior, pos) ==
    <<TxId(prior).val, pos,
      prior.outTx[pos + 1].key_id, prior.outTx[pos + 1].value>>

\* The transaction at hand.
Self == Tx(inTx, outTx)

\* Every field of tx is in the range of its wire format.
FitsWire(tx) ==
    /\ FitsUInt(Len(tx.inTx), CountLen)
    /\ FitsUInt(Len(tx.outTx), CountLen)
    /\ \A i \in DOMAIN tx.inTx :
            Len(tx.inTx[i].tx_id) = IdLen /\ FitsUInt(tx.inTx[i].pos, PosLen)
    /\ \A i \in DOMAIN tx.outTx :
            Len(tx.outTx[i].key_id) = IdLen /\ FitsUInt(tx.outTx[i].value, ValueLen)

----------------------------------------------------------------------------
(* The codec runs *)

InitCodec ==
    /\ inTx = << >>
    /\ outTx = << >>
    /\ data = << >>
    /\ past_tx = << >>
    /\ past_utxo = << >>
    /\ keys = << >>
    /\ sigs = << >>
    /\ store = << >>
    /\ pc = "build"
    /\ ret = Ok(<< >>)

\* Tx(inTx, outTx): the caller's lists, one more input.
AddInput(choices) ==
    /\ pc = "build"
    /\ Len(inTx) < MaxIn
    /\ \E i \in choices : inTx' = Append(inTx, i)
    /\ UNCHANGED <<outTx, data, past_tx, past_utxo, keys, sigs, store, pc, ret>>

\* Tx(inTx, outTx): the caller's lists, one more output.
AddOutput(choices) ==
    /\ pc = "build"
    /\ Len(outTx) < MaxOut
    /\ \E o \in choices : outTx' = Append(outTx, o)
    /\ UNCHANGED <<inTx, data, past_tx, past_utxo, keys, sigs, store, pc, ret>>

\* data = tx.serialize()
SerializeTx ==
    /\ pc = "build"
    /\ ret' = Serialize(Self)
    /\ data' = ret'.val
    /\ pc' = IF IsOk(ret') THEN "serialized" ELSE "raised"
    /\ UNCHANGED <<inTx, outTx, past_tx, past_utxo, keys, sigs, store>>

\* The buffer arrives cut short: data = data[:k]
Truncate ==
    /\ pc = "serialized"
    /\ \E k \in 0..(Len(data) - 1) : data' = Slice(data, k)
    /\ pc' = "cut"
    /\ UNCHANGED <<inTx, outTx, past_tx, past_utxo, keys, sigs, store, ret>>

\* Tx.parse(data)
ParseData ==
    /\ pc \in {"serialized", "cut"}
    /\ ret' = Parse(data)
    /\ pc' = "parsed"
    /\ UNCHANGED <<inTx, outTx, data, past_tx, past_utxo, keys, sigs, store>>

\* tx.get_utxo_in_keys()
UtxoInKeys ==
    /\ pc = "build"
    /\ ret' = get_utxo_in_keys(inTx, << >>)
    /\ pc' = "in_keys"
    /\ UNCHANGED <<inTx, outTx, data, past_tx, past_utxo, keys, sigs, store>>

\* tx.get_utxo_out_entries()
UtxoOutEntries ==
    /\ pc = "build"
    /\ ret' = get_utxo_out_entries(Self)
    /\ pc' = "out_entries"
    /\ UNCHANGED <<inTx, outTx, data, past_tx, past_utxo, keys, sigs, store>>

NextCodec ==
    \/ AddInput(CodecInputs)
    \/ AddOutput(CodecOutputs)
    \/ SerializeTx
    \/ Truncate
    \/ ParseData
    \/ UtxoInKeys
    \/ UtxoOutEntries

SpecCodec == InitCodec /\ [][NextCodec]_vars

----------------------------------------------------------------------------
(* The codec's claims *)

\* C7: a transaction whose fields fit the wire format serializes to
\* 4 + 36*|inputs| + 40*|outputs| bytes, and parsing those bytes gives back
\* the same inputs and outputs in the same order, hence an equal transaction
\* with the same id.
C7_RoundTrip ==
    /\ (pc \in {"serialized", "raised"} /\ FitsWire(Self)) =>
            /\ pc = "serialized"
            /\ Len(data) = 4 + 36 * Len(inTx) + 40 * Len(outTx)
    /\ (pc = "parsed" /\ Len(data) = 4 + 36 * Len(inTx) + 40 * Len(outTx)) =>
            /\ IsOk(ret)
            /\ ret.val.inTx = inTx
            /\ ret.val.outTx = outTx
            /\ TxId(ret.val) = TxId(Self)
            /\ TxEq(ret.val, Self) = Ok(TRUE)

C7_Witness ==
    /\ pc = "parsed"
    /\ Len(inTx) = 2 /\ Len(outTx) = 2
    /\ Len(data) = 4 + 36 * 2 + 40 * 2
    /\ inTx[1] # inTx[2] /\ outTx[1] # outTx[2]
    /\ IsOk(ret)

\* The counts the header of a buffer declares, and the length they call for.
DeclaredLen(bs) ==
    4 + 36 * (bs[1] + 256 * bs[2]) + 40 * (bs[3] + 256 * bs[4])

\* C8: parsing a buffer shorter than its header, or shorter than the records
\* its header declares, raises an error; it never returns a transaction.
C8_TruncatedRejected ==
    (pc = "parsed" /\ (Len(data) < 4 \/ Len(data) < DeclaredLen(data))) =>
        ret.err = StructError

\* A buffer cut in the middle of its last output record has been parsed.
C8_Witness ==
    /\ pc = "parsed"
    /\ Len(inTx) = 1 /\ Len(outTx) = 2
    /\ Len(data) = 4 + 36 + 40 + 17
    /\ ret.err = StructError

\* C9: get_utxo_out_entries gives one entry per output, in order, entry p
\* (from 0) with key (id of the transaction, p) and value (key_id, value);
\* get_utxo_in_keys gives one key per input, in order, (tx_id, pos); so the key
\* made for output p is the key a later input InputTx(id, p) consumes, and
\* the keys one transaction makes are pairwise distinct.
C9_UtxoEntries ==
    /\ (pc = "out_entries" /\ FitsWire(Self)) =>
            /\ IsOk(ret)
            /\ Len(ret.val) = Len(outTx)
            /\ \A p \in DOMAIN ret.val :
                    /\ Unpack32sI(ret.val[p][1]) = Ok(<<TxId(Self).val, p - 1>>)
                    /\ Unpack32sQ(ret.val[p][2])
                           = Ok(<<outTx[p].key_id, outTx[p].value>>)
                    /\ get_utxo_in_keys(<<InputTx(TxId(Self).val, p - 1)>>, << >>)
                           = Ok(<<ret.val[p][1]>>)
            /\ \A p, q \in DOMAIN ret.val :
                    p # q => ret.val[p][1] # ret.val[q][1]
    /\ (pc = "in_keys" /\ FitsWire(Self)) =>
            /\ IsOk(ret)
            /\ Len(ret.val) = Len(inTx)
            /\ \A i \in DOMAIN ret.val :
                    Unpack32sI(ret.val[i]) = Ok(<<inTx[i].tx_id, inTx[i].pos>>)

C9_Witness ==
    /\ pc = "out_entries"
    /\ Len(inTx) = 1 /\ Len(outTx) = 2
    /\ IsOk(ret) /\ Len(ret.val) = 2

----------------------------------------------------------------------------
(* The validator runs: the caller builds a transaction, then its proof: a   *)
(* key and its signature per input, the evidence of each input, and maybe   *)
(* one piece of it altered; then asks for a check.                          *)

InitValidate ==
    InitCodec

\* The evidence a caller finds for an input: the prior transaction of that
\* id, and the output at that position.
EvidenceFor(txin) ==
    CHOOSE e \in Evidence :
        TxId(e[1]).val = txin.tx_id /\ e[2] = txin.pos

\* keys, sigs: one more key, with its signature of the transaction's id
AddKeySig ==
    /\ pc \in {"build", "gather"}
    /\ Len(keys) < MaxIn
    /\ Len(keys) = Len(sigs)
    /\ \E k \in KeyBytes :
            /\ keys' = Append(keys, k)
            /\ sigs' = Append(sigs, Sign(k, TxId(Self).val))
    /\ pc' = "gather"
    /\ UNCHANGED <<inTx, outTx, data, past_tx, past_utxo, store, ret>>

\* past_tx, past_utxo: the evidence of the next input, as a whole prior
\* transaction and as the store entry of its output
AddEvidence ==
    /\ pc \in {"build", "gather"}
    /\ Len(past_tx) < Len(inTx)
    /\ LET e == EvidenceFor(inTx[Len(past_tx) + 1])
       IN  /\ past_tx' = Append(past_tx, Serialize(e[1]).val)
           /\ past_utxo' = Append(past_utxo, UtxoOf(e[1], e[2]))
    /\ pc' = "gather"
    /\ UNCHANGED <<inTx, outTx, data, keys, sigs, store, ret>>

\* sigs[i]: a signature by another key, or of another message
ForgeSig ==
    /\ pc = "gather"
    /\ \E i \in DOMAIN sigs :
       \E k \in KeyBytes :
       \E m \in {TxId(Self).val, IdP2} :
            /\ Sign(k, m) # sigs[i]
            /\ sigs' = [sigs EXCEPT ![i] = Sign(k, m)]
    /\ pc' = "altered"
    /\ UNCHANGED <<inTx, outTx, data, past_tx, past_utxo, keys, store, ret>>

\* past_tx[i], past_utxo[i]: the evidence of something else
SwapEvidence ==
    /\ pc = "gather"
    /\ \E i \in DOMAIN past_tx :
       \E e \in Evidence :
            /\ UtxoOf(e[1], e[2]) # past_utxo[i]
            /\ past_tx' = [past_tx EXCEPT ![i] = Serialize(e[1]).val]
            /\ past_utxo' = [past_utxo EXCEPT ![i] = UtxoOf(e[1], e[2])]
    /\ pc' = "altered"
    /\ UNCHANGED <<inTx, outTx, data, keys, sigs, store, ret>>

\* keys: the last key left out
DropKey ==
    /\ pc = "gather"
    /\ Len(keys) > 0
    /\ keys' = SubSeq(keys, 1, Len(keys) - 1)
    /\ pc' = "altered"
    /\ UNCHANGED <<inTx, outTx, data, past_tx, past_utxo, sigs, store, ret>>

\* sigs: the last signature left out
DropSig ==
    /\ pc = "gather"
    /\ Len(sigs) > 0
    /\ sigs' = SubSeq(sigs, 1, Len(sigs) - 1)
    /\ pc' = "altered"
    /\ UNCHANGED <<inTx, outTx, data, past_tx, past_utxo, keys, store, ret>>

\* tx.check_transaction(past_tx, keys, sigs, masterkey)
CheckTransaction ==
    /\ pc \in {"build", "gather", "altered"}
    /\ ret' = check_transaction(Self, past_tx, keys, sigs, MasterKey)
    /\ pc' = "check_transaction"
    /\ UNCHANGED <<inTx, outTx, data, past_tx, past_utxo, keys, sigs, store>>

\* tx.check_transaction_utxo(past_utxo, keys, sigs, masterkey)
CheckTransactionUtxo ==
    /\ pc \in {"build", "gather", "altered"}
    /\ ret' = check_transaction_utxo(Self, past_utxo, keys, sigs, MasterKey)
    /\ pc' = "check_transaction_utxo"
    /\ UNCHANGED <<inTx, outTx, data, past_tx, past_utxo, keys, sigs, store>>

NextValidate ==
    \/ AddInput(SpendInputs)
    \/ AddOutput(SpendOutputs)
    \/ AddKeySig
    \/ AddEvidence
    \/ ForgeSig
    \/ SwapEvidence
    \/ DropKey
    \/ DropSig
    \/ CheckTransaction
    \/ CheckTransactionUtxo

SpecValidate == InitValidate /\ [][NextValidate]_vars

----------------------------------------------------------------------------
(* The validators' claims *)

\* The id of the transaction that past_tx[i] parses to.
PastId(i) ==
    TxId(Parse(past_tx[i]).val).val

\* The positions at which past_tx and inTx both have an element.
Paired ==
    DOMAIN past_tx \cap DOMAIN inTx

\* C1: check_transaction with non-empty past_tx never accepts when, at some
\* position, the prior transaction parsed from past_tx has an id other than
\* the tx_id of the input at that position.
C1_IdMismatchRejected ==
    (/\ pc = "check_transaction"
     /\ Len(past_tx) > 0
     /\ \E i \in Paired : PastId(i) # inTx[i].tx_id)
        => ~Accepted(ret)

\* C2: with empty evidence check_transaction_utxo returns True exactly when
\* the transaction has no inputs, one key and one signature are given, the
\* key is the master key, and the key verifies the signature of the id.
C2_IssuingIff ==
    (pc = "check_transaction_utxo" /\ Len(past_utxo) = 0) =>
        (Accepted(ret) <=>
            /\ Len(inTx) = 0
            /\ Len(keys) = 1
            /\ Len(sigs) = 1
            /\ keys[1] = MasterKey
            /\ sigs[1].signer = keys[1]
            /\ sigs[1].message = TxId(Self).val)

C2_Witness ==
    /\ pc = "check_transaction_utxo"
    /\ Len(past_utxo) = 0 /\ Len(inTx) = 0 /\ Len(outTx) = 2
    /\ keys = <<MasterKey>>
    /\ Accepted(ret)

\* C3: with evidence check_transaction_utxo returns True only if evidence,
\* keys, signatures and inputs are equally many, and at every position, in
\* the order given, the evidence is that of the input (id and position), the
\* key's fingerprint is the owner in the evidence, and the signature is one
\* of the transaction's id by that key.
C3_SpendAuthorized ==
    (pc = "check_transaction_utxo" /\ Len(past_utxo) > 0 /\ Accepted(ret)) =>
        /\ Len(past_utxo) = Len(inTx)
        /\ Len(keys) = Len(inTx)
        /\ Len(sigs) = Len(inTx)
        /\ \A i \in DOMAIN inTx :
                /\ past_utxo[i][1] = inTx[i].tx_id
                /\ past_utxo[i][2] = inTx[i].pos
                /\ past_utxo[i][3] = Sha256(keys[i])
                /\ sigs[i].signer = keys[i]
                /\ sigs[i].message = TxId(Self).val

C3_Witness ==
    /\ pc = "check_transaction_utxo"
    /\ Len(past_utxo) = 2 /\ Len(inTx) = 2 /\ Len(keys) = 2
    /\ inTx[1] # inTx[2]
    /\ keys[1] # keys[2]
    /\ Accepted(ret)

\* The amounts of the evidence, added up.
RECURSIVE SumEvidence(_)
SumEvidence(utxos) ==
    IF Len(utxos) = 0 THEN 0 ELSE utxos[1][4] + SumEvidence(Tail(utxos))

RECURSIVE SumOutputs(_)
SumOutputs(outs) ==
    IF Len(outs) = 0 THEN 0 ELSE outs[1].value + SumOutputs(Tail(outs))

\* C4: with evidence check_transaction_utxo returns True only if the amounts
\* of the evidence add up to exactly the amounts of the outputs.
C4_ValueConserved ==
    (pc = "check_transaction_utxo" /\ Len(past_utxo) > 0 /\ Accepted(ret)) =>
        SumEvidence(past_utxo) = SumOutputs(outTx)

C4_Witness ==
    /\ pc = "check_transaction_utxo"
    /\ Len(past_utxo) = 2 /\ Len(outTx) = 2
    /\ SumEvidence(past_utxo) = 200
    /\ Accepted(ret)

\* past_tx is consistent with the inputs: each prior transaction has the id
\* its input names and an output at the position its input names.
Consistent ==
    \A i \in DOMAIN past_tx :
        /\ i \in DOMAIN inTx
        /\ LET oTx == Parse(past_tx[i])
           IN  /\ IsOk(oTx)
               /\ 0 <= inTx[i].pos
               /\ inTx[i].pos < Len(oTx.val.outTx)
               /\ TxId(oTx.val).val = inTx[i].tx_id

\* The tuples (tx_id, pos, owner, amount) taken from the prior transactions.
Extracted ==
    [i \in DOMAIN past_tx |->
        LET oTx == Parse(past_tx[i]).val
        IN  <<TxId(oTx).val, inTx[i].pos,
              oTx.outTx[inTx[i].pos + 1].key_id,
              oTx.outTx[inTx[i].pos + 1].value>>]

\* C5: on prior transactions consistent with the inputs, check_transaction
\* ends as check_transaction_utxo does on the tuples taken from them, with
\* the same keys, signatures and master key; the issuing case included.
C5_EntryPointsAgree ==
    (pc = "check_transaction" /\ Consistent) =>
        ret = check_transaction_utxo(Self, Extracted, keys, sigs, MasterKey)

C5_Witness ==
    /\ pc = "check_transaction"
    /\ Consistent
    /\ Len(past_tx) = 2
    /\ Accepted(ret)

\* The lists do not have the shape of either path, or an input names an
\* output its prior transaction does not have.
InvalidShape ==
    \/ /\ pc = "check_transaction_utxo"
       /\ \/ Len(past_utxo) = 0
             /\ ~(Len(inTx) = 0 /\ Len(keys) = 1 /\ Len(sigs) = 1)
          \/ Len(past_utxo) > 0
             /\ ~(Len(past_utxo) = Len(keys) /\ Len(keys) = Len(sigs)
                   /\ Len(sigs) = Len(inTx))
    \/ /\ pc = "check_transaction"
       /\ \/ Len(past_tx) = 0
             /\ ~(Len(inTx) = 0 /\ Len(keys) = 1 /\ Len(sigs) = 1)
          \/ Len(past_tx) > 0
             /\ ~(Len(past_tx) = Len(keys) /\ Len(keys) = Len(sigs)
                   /\ Len(sigs) = Len(inTx))
          \/ \E i \in Paired :
                inTx[i].pos >= Len(Parse(past_tx[i]).val.outTx)

\* C6: on lists of an invalid shape, and on an input position out of range,
\* both validators return False; they never raise.
C6_InvalidShapeRejected ==
    InvalidShape => Rejected(ret)

----------------------------------------------------------------------------
(* The ledger runs: a caller keeps the UTXO store.  It applies a            *)
(* transaction that check_transaction_utxo accepts on the evidence read     *)
(* from the store: it deletes the keys of get_utxo_in_keys and puts the     *)
(* entries of get_utxo_out_entries.  past_tx is its log.                    *)

MaxTxs == 3

\* What the ledger's transactions pay.
LedgerOutputs ==
    {OutputTx(KeyId(K1), 100), OutputTx(KeyId(K2), 50)}

SeqsUpTo(S, n) ==
    UNION {[1..m -> S] : m \in 0..n}

\* The key pair whose fingerprint is fp.
KeyOf(fp) ==
    CHOOSE k \in KeyBytes : KeyId(k) = fp

\* The inputs the store has an entry for.
StoreInputs ==
    {InputTx(Unpack32sI(k).val[1], Unpack32sI(k).val[2]) : k \in DOMAIN store}

\* get(key), as the tuple (txid, pos, keyid, val) the validator takes
ReadStore(st, txin) ==
    LET key == Pack32sI(txin.tx_id, txin.pos).val
        kv  == Unpack32sQ(st[key]).val
    IN  <<txin.tx_id, txin.pos, kv[1], kv[2]>>

\* delete(key) for each key of dels
DeleteAll(st, dels) ==
    [k \in DOMAIN st \ {dels[i] : i \in DOMAIN dels} |-> st[k]]

\* put(key, value) for each entry of puts, in order
RECURSIVE PutAll(_, _)
PutAll(st, puts) ==
    IF Len(puts) = 0 THEN st
    ELSE PutAll([k \in DOMAIN st \cup {puts[1][1]} |->
                    IF k = puts[1][1] THEN puts[1][2] ELSE st[k]],
                Tail(puts))

\* The store after tx is applied.
Apply(st, tx) ==
    PutAll(DeleteAll(st, get_utxo_in_keys(tx.inTx, << >>).val),
           get_utxo_out_entries(tx).val)

InitLedger ==
    InitCodec

\* The authority issues coins: a transaction with no inputs, its key, its
\* signature.
Issue ==
    /\ Len(past_tx) < MaxTxs
    /\ \E outs \in SeqsUpTo(LedgerOutputs, MaxOut) :
        LET tx == Tx(<< >>, outs)
            ks == <<MasterKey>>
            ss == <<Sign(MasterKey, TxId(tx).val)>>
        IN  /\ Accepted(check_transaction_utxo(tx, << >>, ks, ss, MasterKey))
            /\ store' = Apply(store, tx)
            /\ inTx' = << >>
            /\ outTx' = outs
            /\ past_utxo' = << >>
            /\ keys' = ks
            /\ sigs' = ss
            /\ past_tx' = Append(past_tx, Serialize(tx).val)
    /\ pc' = "issued"
    /\ ret' = Ok(TRUE)
    /\ UNCHANGED data

\* Owners spend: inputs that name entries of the store, the entries as
\* evidence, per input the owner's key and signature.
Spend ==
    /\ Len(past_tx) < MaxTxs
    /\ \E ins \in SeqsUpTo(StoreInputs, MaxIn) \ {<< >>} :
       \E outs \in SeqsUpTo(LedgerOutputs, MaxOut) :
        LET tx    == Tx(ins, outs)
            utxos == [i \in DOMAIN ins |-> ReadStore(store, ins[i])]
            ks    == [i \in DOMAIN ins |-> KeyOf(utxos[i][3])]
            ss    == [i \in DOMAIN ins |-> Sign(ks[i], TxId(tx).val)]
        IN  /\ Accepted(check_transaction_utxo(tx, utxos, ks, ss, MasterKey))
            /\ store' = Apply(store, tx)
            /\ inTx' = ins
            /\ outTx' = outs
            /\ past_utxo' = utxos
            /\ keys' = ks
            /\ sigs' = ss
            /\ past_tx' = Append(past_tx, Serialize(tx).val)
    /\ pc' = "spent"
    /\ ret' = Ok(TRUE)
    /\ UNCHANGED data

NextLedger ==
    \/ Issue
    \/ Spend

SpecLedger == InitLedger /\ [][NextLedger]_vars

\* The amounts the store holds, added up.
RECURSIVE TotalOf(_, _)
TotalOf(st, ks) ==
    IF ks = {} THEN 0
    ELSE LET k == CHOOSE x \in ks : TRUE
         IN  Unpack32sQ(st[k]).val[2] + TotalOf(st, ks \ {k})

Total(st) ==
    TotalOf(st, DOMAIN st)

\* C10: applying an accepted spending transaction leaves the total amount of
\* the store as it was, and the transaction names no prior output at two of
\* its input positions.
C10_SupplyConserved ==
    [][pc' = "spent" =>
        /\ Total(store') = Total(store)
        /\ \A i, j \in DOMAIN inTx' : i # j => inTx'[i] # inTx'[j]]_vars

====
